---- MODULE Spec2Model ----
(***************************************************************************)
(* A model of spice-completion's netlist-to-graph encoding pipeline:       *)
(*   - the component type registry (parse_netlist.py, module level),       *)
(*   - the graph builder netlist_as_graph,                                 *)
(*   - the masked and omission encoders and their corpus loaders,          *)
(*   - PrototypeLinkDataset.load_graph / load_graphs,                      *)
(*   - direct calls of is_valid_netlist and of the two encoders by an      *)
(*     importing module,                                                   *)
(*   - PrototypeLinkDataset.read's resampling,                             *)
(*   - the training loop of train_node_actions.py (SpecTrain).             *)
(*                                                                         *)
(* Python lists are sequences (1-based here); every index the code         *)
(* computes (list.index, numpy indices) is kept 0-based, so position p of  *)
(* a sequence is Python index p-1.  numpy arrays are functions over        *)
(* 0..n-1.  A str is a sequence of pieces: a piece is one whitespace       *)
(* character or a maximal run of non-whitespace characters.  A class       *)
(* object used as a type tag is the two-piece sequence <<"class", name>>,  *)
(* which no str of a side file can equal.                                  *)
(***************************************************************************)
EXTENDS Integers, Sequences, FiniteSets, TLC

\* ------------------------------------------------------------ bounds
\* Elements of a whole corpus (summed over its netlists).
MaxElements == 2
\* Pins of a subcircuit instance (the other element kinds have a fixed pin count).
MaxPins == 2
\* Netlists of a corpus.
MaxFiles == 2
\* Lines of the side file.
MaxLines == 2
\* The training script's --epochs.
MaxEpochs == 10
\* Batches of an epoch (loader_tr.steps_per_epoch).
MaxSteps == 2
\* The training script's --checkpoint-freq.
MaxFreq == 3
\* Loss values of a training step.
MaxLoss == 2

\* ------------------------------------------------------------ helpers
Range(s) == {s[i] : i \in 1..Len(s)}

\* list.index(x): the 0-based position of the first element equal to x.
\* Python raises ValueError when there is none; modelled as -1, which
\* callers test before use.
IndexOf(s, x) ==
  IF x \in Range(s)
    THEN (CHOOSE i \in 1..Len(s) : s[i] = x /\ \A j \in 1..(i - 1) : s[j] # x) - 1
    ELSE -1

RECURSIVE SumSeq(_)
SumSeq(s) == IF s = <<>> THEN 0 ELSE s[1] + SumSeq(Tail(s))

MaxOf(S) == CHOOSE m \in S : \A x \in S : x <= m

\* The sum of f over 0..n-1.
RECURSIVE SumTo(_, _)
SumTo(f, n) == IF n = 0 THEN 0 ELSE f[n - 1] + SumTo(f, n - 1)

\* All sequences over S of length lo..hi.
SeqsOf(S, lo, hi) == UNION {[1..n -> S] : n \in lo..hi}

\* ------------------------------------------------ component type registry
Cls(name) == <<"class", name>>
Str(word) == <<word>>

Node == Cls("Node")
SubCircuitElement == Cls("SubCircuitElement")

\* The built-in enumeration, in the order of the source.
BuiltinComponentTypes ==
  << Str("unknown"),
     Cls("Resistor"),
     Cls("BehavioralCapacitor"),
     Cls("VoltageSource"),
     Cls("Mosfet"),
     SubCircuitElement,
     Node,
     Cls("Diode"),
     Cls("BehavioralInductor"),
     Cls("CurrentSource"),
     Cls("VoltageControlledCurrentSource"),
     Cls("VoltageControlledVoltageSource"),
     Cls("Capacitor"),
     Cls("CoupledInductor"),
     Cls("JunctionFieldEffectTransistor"),
     Cls("BipolarJunctionTransistor"),
     Cls("XSpiceElement"),
     Cls("BehavioralSource") >>

Whitespace == {" ", "\t", "\n"}

\* str.split(' '): cut at every single space; empty tokens are kept.
RECURSIVE SplitSpace(_, _, _)
SplitSpace(line, cur, acc) ==
  IF line = <<>> THEN Append(acc, cur)
  ELSE IF Head(line) = " " THEN SplitSpace(Tail(line), <<>>, Append(acc, cur))
  ELSE SplitSpace(Tail(line), Append(cur, Head(line)), acc)

Split(line) == SplitSpace(line, <<>>, <<>>)

\* str.strip(): drop leading and trailing whitespace.
RECURSIVE LStrip(_)
LStrip(s) == IF s # <<>> /\ Head(s) \in Whitespace THEN LStrip(Tail(s)) ELSE s

RECURSIVE RStrip(_)
RStrip(s) ==
  IF s # <<>> /\ s[Len(s)] \in Whitespace THEN RStrip(SubSeq(s, 1, Len(s) - 1)) ELSE s

Strip(s) == RStrip(LStrip(s))

\* dict.get(key, default) on a dict modelled as a function.
DictGet(d, key, default) == IF key \in DOMAIN d THEN d[key] ELSE default

\* The loop body appending the label without the membership test.
LoadSideFileLineAlwaysAppend(reg, line) ==
  IF Len(Split(line)) # 2 THEN reg
  ELSE LET subcircuit == Split(line)[1]
           label == Strip(Split(line)[2])
       IN [component_types |-> Append(reg.component_types, label),
           subcircuit_types |->
             [k \in DOMAIN reg.subcircuit_types \cup {subcircuit} |->
                IF k = subcircuit THEN label ELSE reg.subcircuit_types[k]]]

\* One iteration of the side-file loop: the generator's filter, then the body.
\* reg is [component_types, subcircuit_types].
LoadSideFileLine(reg, line) ==
  IF Len(Split(line)) # 2 THEN reg
  ELSE LET subcircuit == Split(line)[1]
           label == Strip(Split(line)[2])
       IN [component_types |->
             IF label \notin Range(reg.component_types)
               THEN Append(reg.component_types, label)
               ELSE reg.component_types,
           subcircuit_types |->
             [k \in DOMAIN reg.subcircuit_types \cup {subcircuit} |->
                IF k = subcircuit THEN label ELSE reg.subcircuit_types[k]]]

\* ------------------------------------------------------------ entities
\* What the parser hands over: an element has a class, a subcircuit name (""
\* unless it is a subcircuit instance) and pins; a pin has the id of its node.
\* id is the object's identity: the element's position in circuit.elements,
\* the node's creation order in the netlist.
Element(id, cls, name, pins) ==
  [kind |-> "element", id |-> id, cls |-> cls, subcircuit_name |-> name, pins |-> pins]

NodeOf(id) ==
  [kind |-> "node", id |-> id, cls |-> Node, subcircuit_name |-> <<>>, pins |-> <<>>]

\* The lookup without the subcircuit-name mapping.
GetComponentTypeIndexNoMapping(component_types, subcircuit_types, entity) ==
  IndexOf(component_types, entity.cls)

\* get_component_type_index; -1 stands for the ValueError of list.index.
get_component_type_index(component_types, subcircuit_types, entity) ==
  LET element_type ==
        IF entity.cls = SubCircuitElement
          THEN DictGet(subcircuit_types, entity.subcircuit_name, entity.cls)
          ELSE entity.cls
  IN IndexOf(component_types, element_type)

\* ------------------------------------------------------------ graph builder
\* A dict of lists, in insertion order: keys is the key order, val the lists.
EmptyDict == [keys |-> <<>>, val |-> <<>>]

HasKey(d, k) == k \in Range(d.keys)

\* d[k] = [] for a key that may be new.
DictSetEmpty(d, k) ==
  [keys |-> IF HasKey(d, k) THEN d.keys ELSE Append(d.keys, k),
   val |-> [x \in DOMAIN d.val \cup {k} |-> IF x = k THEN <<>> ELSE d.val[x]]]

\* d[k].extend(items)
DictExtend(d, k, items) == [d EXCEPT !.val[k] = @ \o items]

\* for node in nodes: if node not in component_list: component_list.append(node)
RECURSIVE AppendNewNodes(_, _)
AppendNewNodes(component_list, nodes) ==
  IF nodes = <<>> THEN component_list
  ELSE AppendNewNodes(
         IF Head(nodes) \notin Range(component_list)
           THEN Append(component_list, Head(nodes))
           ELSE component_list,
         Tail(nodes))

\* for node_id in node_ids: if node_id not in adj: adj[node_id] = [];
\*                          adj[node_id].append(element_id)
RECURSIVE LinkNodes(_, _, _)
LinkNodes(adj, node_ids, element_id) ==
  IF node_ids = <<>> THEN adj
  ELSE LET n == Head(node_ids)
           a1 == IF ~HasKey(adj, n) THEN DictSetEmpty(adj, n) ELSE adj
       IN LinkNodes(DictExtend(a1, n, <<element_id>>), Tail(node_ids), element_id)

\* The loop body appending an element's nodes before the element.
WalkElementNodesFirst(st, element) ==
  LET nodes == [p \in 1..Len(element.pins) |-> NodeOf(element.pins[p])]
      cl1 == AppendNewNodes(st.component_list, nodes)
      cl2 == IF element \notin Range(cl1) THEN Append(cl1, element) ELSE cl1
      element_id == IndexOf(cl2, element)
      node_ids == [p \in 1..Len(nodes) |-> IndexOf(cl2, nodes[p])]
      a0 == LinkNodes(st.adj, node_ids, element_id)
      a1 == IF ~HasKey(a0, element_id) THEN DictSetEmpty(a0, element_id) ELSE a0
  IN [component_list |-> cl2, adj |-> DictExtend(a1, element_id, node_ids)]

\* The loop body taking the element's index to be the last of the list.
WalkElementLastIndex(st, element) ==
  LET cl1 == IF element \notin Range(st.component_list)
               THEN Append(st.component_list, element)
               ELSE st.component_list
      nodes == [p \in 1..Len(element.pins) |-> NodeOf(element.pins[p])]
      cl2 == AppendNewNodes(cl1, nodes)
      element_id == Len(cl2) - 1
      a1 == IF ~HasKey(st.adj, element_id) THEN DictSetEmpty(st.adj, element_id) ELSE st.adj
      node_ids == [p \in 1..Len(nodes) |-> IndexOf(cl2, nodes[p])]
      a2 == DictExtend(a1, element_id, node_ids)
  IN [component_list |-> cl2, adj |-> LinkNodes(a2, node_ids, element_id)]

\* The body of the loop over circuit.elements; st is [component_list, adj].
WalkElement(st, element) ==
  LET cl1 == IF element \notin Range(st.component_list)
               THEN Append(st.component_list, element)
               ELSE st.component_list
      nodes == [p \in 1..Len(element.pins) |-> NodeOf(element.pins[p])]
      cl2 == AppendNewNodes(cl1, nodes)
      element_id == IndexOf(cl2, element)
      a1 == IF ~HasKey(st.adj, element_id) THEN DictSetEmpty(st.adj, element_id) ELSE st.adj
      node_ids == [p \in 1..Len(nodes) |-> IndexOf(cl2, nodes[p])]
      a2 == DictExtend(a1, element_id, node_ids)
  IN [component_list |-> cl2, adj |-> LinkNodes(a2, node_ids, element_id)]

RECURSIVE WalkElements(_, _)
WalkElements(st, elements) ==
  IF elements = <<>> THEN st
  ELSE WalkElements(WalkElement(st, Head(elements)), Tail(elements))

\* nx.adjacency_matrix(nx.from_dict_of_lists(adj)).toarray(): an undirected
\* simple graph whose node order is the dict's key order; row r and column c
\* are the r-th and c-th node of that order; an edge repeated in the lists is
\* one edge, of weight 1.
\* The matrix of the directed graph of the lists, upper triangle only.
DictAsMatrixDirected(d) ==
  LET n == Len(d.keys)
  IN [r \in 0..(n - 1) |-> [c \in 0..(n - 1) |->
        IF d.keys[c + 1] \in Range(d.val[d.keys[r + 1]]) /\ r < c
          THEN 1 ELSE 0]]

\* The matrix of the multigraph of the lists: an entry counts how often the
\* column's key occurs in the row's list.
DictAsMatrixCounting(d) ==
  LET n == Len(d.keys)
  IN [r \in 0..(n - 1) |-> [c \in 0..(n - 1) |->
        Cardinality({p \in 1..Len(d.val[d.keys[r + 1]]) :
                       d.val[d.keys[r + 1]][p] = d.keys[c + 1]})]]

DictAsMatrix(d) ==
  LET n == Len(d.keys)
  IN [r \in 0..(n - 1) |-> [c \in 0..(n - 1) |->
        IF \/ d.keys[c + 1] \in Range(d.val[d.keys[r + 1]])
           \/ d.keys[r + 1] \in Range(d.val[d.keys[c + 1]])
          THEN 1 ELSE 0]]

\* netlist_as_graph.  raised: the parser rejected the text, or networkx
\* refused the matrix of a graph without nodes (a netlist without elements).
Raised(why) == [raised |-> why, component_list |-> <<>>, adj |-> <<>>]

netlist_as_graph(textfile) ==
  IF ~textfile.valid THEN Raised("ParseError")
  ELSE LET st == WalkElements([component_list |-> <<>>, adj |-> EmptyDict],
                              textfile.elements)
       IN IF st.adj.keys = <<>> THEN Raised("NetworkXError")
          ELSE [raised |-> "", component_list |-> st.component_list,
                adj |-> DictAsMatrix(st.adj)]

\* ------------------------------------------------------------ encoders
\* np.zeros of two and of three dimensions.
Zeros2(a, b) == [r \in 0..(a - 1) |-> [c \in 0..(b - 1) |-> 0]]
Zeros3(a, b, c) == [s \in 0..(a - 1) |-> Zeros2(b, c)]

\* element_types = np.array([get_component_type_index(e) for e in component_list])
ElementTypes(component_types, subcircuit_types, component_list) ==
  [k \in 0..(Len(component_list) - 1) |->
     get_component_type_index(component_types, subcircuit_types, component_list[k + 1])]

\* The type rows written through the whole tensor instead of the slice.
SetTypeRowsWholeTensor(X, types, n, start, end) ==
  [s \in DOMAIN X |-> [k \in DOMAIN X[s] |-> [t \in DOMAIN X[s][k] |->
     IF k < n /\ t = types[k] THEN 1 ELSE X[s][k][t]]]]

\* X[:, np.arange(n), element_types] = 1 on the slice start..end-1 of X.
SetTypeRows(X, types, n, start, end) ==
  [s \in DOMAIN X |-> [k \in DOMAIN X[s] |-> [t \in DOMAIN X[s][k] |->
     IF s >= start /\ s < end /\ k < n /\ t = types[k] THEN 1 ELSE X[s][k][t]]]]

\* encode_masked_netlist on the slices A[start:end], X[start:end], y[start:end].
\* The loop over idx writes sample start+idx only, so its effect is given per
\* sample: X[idx, idx, actual_type] = 0, then X[idx, idx, 0] = 1, then
\* A[idx, :n, :n] = adj.
\* The masked encoder writing the 'unknown' bit before clearing the true type.
MaskedXUnknownFirst(X, types, n, start, end) ==
  LET X1 == SetTypeRows(X, types, n, start, end)
  IN [s \in DOMAIN X1 |-> [k \in DOMAIN X1[s] |-> [t \in DOMAIN X1[s][k] |->
       IF s >= start /\ s - start < n /\ k = s - start
         THEN IF t = types[k] THEN 0 ELSE IF t = 0 THEN 1 ELSE X1[s][k][t]
         ELSE X1[s][k][t]]]]

\* The masked encoder without X[idx, idx, actual_type] = 0.
MaskedXNoClear(X, types, n, start, end) ==
  LET X1 == SetTypeRows(X, types, n, start, end)
  IN [s \in DOMAIN X1 |-> [k \in DOMAIN X1[s] |-> [t \in DOMAIN X1[s][k] |->
       IF s >= start /\ s - start < n /\ k = s - start /\ t = 0
         THEN 1 ELSE X1[s][k][t]]]]

MaskedX(X, types, n, start, end) ==
  LET X1 == SetTypeRows(X, types, n, start, end)
  IN [s \in DOMAIN X1 |-> [k \in DOMAIN X1[s] |-> [t \in DOMAIN X1[s][k] |->
       IF s >= start /\ s - start < n /\ k = s - start
         THEN IF t = 0 THEN 1 ELSE IF t = types[k] THEN 0 ELSE X1[s][k][t]
         ELSE X1[s][k][t]]]]

MaskedA(A, adj, n, start, end) ==
  [s \in DOMAIN A |-> [r \in DOMAIN A[s] |-> [c \in DOMAIN A[s][r] |->
     IF s >= start /\ s - start < n /\ r < n /\ c < n THEN adj[r][c] ELSE A[s][r][c]]]]

\* encode_omitted_netlist: y[np.arange(n), element_types] = 1; in the loop
\* X[idx, idx, actual_type] = 0, A[idx, :n, :n] = adj, A[idx, :, idx] = 0,
\* A[idx, idx, :] = 0.
\* The omission encoder clearing the hidden entity's type in every row of its
\* sample: X[idx, :, actual_type] = 0.
OmittedXClearType(X, types, n, start, end) ==
  LET X1 == SetTypeRows(X, types, n, start, end)
  IN [s \in DOMAIN X1 |-> [k \in DOMAIN X1[s] |-> [t \in DOMAIN X1[s][k] |->
       IF s >= start /\ s - start < n /\ t = types[s - start]
         THEN 0 ELSE X1[s][k][t]]]]

OmittedX(X, types, n, start, end) ==
  LET X1 == SetTypeRows(X, types, n, start, end)
  IN [s \in DOMAIN X1 |-> [k \in DOMAIN X1[s] |-> [t \in DOMAIN X1[s][k] |->
       IF s >= start /\ s - start < n /\ k = s - start /\ t = types[k]
         THEN 0 ELSE X1[s][k][t]]]]

\* The omission encoder's labels written as y[:, element_types] = 1.
OmittedYAllTypes(y, types, n, start, end) ==
  [s \in DOMAIN y |-> [t \in DOMAIN y[s] |->
     IF s >= start /\ s < end /\ (\E k \in 0..(n - 1) : t = types[k]) THEN 1 ELSE y[s][t]]]

OmittedY(y, types, n, start, end) ==
  [s \in DOMAIN y |-> [t \in DOMAIN y[s] |->
     IF s >= start /\ s - start < n /\ t = types[s - start] THEN 1 ELSE y[s][t]]]

\* The omission encoder without A[idx, :, idx] = 0.
OmittedARowOnly(A, adj, n, start, end) ==
  [s \in DOMAIN A |-> [r \in DOMAIN A[s] |-> [c \in DOMAIN A[s][r] |->
     IF s >= start /\ s - start < n
       THEN IF r = s - start THEN 0
            ELSE IF r < n /\ c < n THEN adj[r][c] ELSE A[s][r][c]
       ELSE A[s][r][c]]]]

OmittedA(A, adj, n, start, end) ==
  [s \in DOMAIN A |-> [r \in DOMAIN A[s] |-> [c \in DOMAIN A[s][r] |->
     IF s >= start /\ s - start < n
       THEN IF r = s - start \/ c = s - start THEN 0
            ELSE IF r < n /\ c < n THEN adj[r][c] ELSE A[s][r][c]
       ELSE A[s][r][c]]]]

\* encode_masked_netlist(graph, A, X, y) on tensors of any shape: A is
\* (D, M, M), X and y are (D, M, T), the graph has n entities of the given
\* types.  With M < n the first statement's index array is out of bounds and
\* numpy raises IndexError before it writes.  With M >= n and D < n the two
\* type-row statements write all D samples, the loop writes samples 0..D-1 and
\* X[idx, idx, actual_type] raises IndexError at idx = D.
encode_masked_netlist(types, adj, n, A, X, y) ==
  LET D == Cardinality(DOMAIN X)
      M == Cardinality(DOMAIN X[0])
  IN IF M < n THEN [raised |-> "IndexError", A |-> A, X |-> X, y |-> y]
     ELSE [raised |-> IF D < n THEN "IndexError" ELSE "",
           A |-> MaskedA(A, adj, n, 0, D),
           X |-> MaskedX(X, types, n, 0, D),
           y |-> SetTypeRows(y, types, n, 0, D)]

\* encode_omitted_netlist(graph, A, X, y): y is (D, T).  With M < n as above.
\* With M >= n and D < n, X's type rows are written and then
\* y[np.arange(n), element_types] = 1 raises IndexError.
encode_omitted_netlist(types, adj, n, A, X, y) ==
  LET D == Cardinality(DOMAIN X)
      M == Cardinality(DOMAIN X[0])
  IN IF M < n THEN [raised |-> "IndexError", A |-> A, X |-> X, y |-> y]
     ELSE IF D < n
       THEN [raised |-> "IndexError", A |-> A,
             X |-> SetTypeRows(X, types, n, 0, D), y |-> y]
       ELSE [raised |-> "", A |-> OmittedA(A, adj, n, 0, D),
             X |-> OmittedX(X, types, n, 0, D),
             y |-> OmittedY(y, types, n, 0, D)]

\* PrototypeLinkDataset.load_graph(components, adj, omitted_idx); omitted_idx
\* is -1 for None.  T is len(all_component_types); column T is action_index.
ActionIndices(n, T, omitted_idx) ==
  IF omitted_idx # -1
    THEN [a \in 0..(T - 1) |-> IF a = 0 THEN omitted_idx ELSE n + a - 1]
    ELSE [a \in 0..(T - 1) |-> n + a]

\* The action types without the omitted type taken out of the others.
ActionTypesKeepingOmitted(types, T, omitted_idx) ==
  IF omitted_idx # -1
    THEN [a \in 0..(T - 1) |-> IF a = 0 THEN types[omitted_idx] ELSE a - 1]
    ELSE [a \in 0..(T - 1) |-> a]

\* [omitted_type] followed by the other indices in order.
ActionTypes(types, T, omitted_idx) ==
  IF omitted_idx # -1
    THEN LET omitted_type == types[omitted_idx]
         IN [a \in 0..(T - 1) |->
               IF a = 0 THEN omitted_type
               ELSE IF a - 1 < omitted_type THEN a - 1 ELSE a]
    ELSE [a \in 0..(T - 1) |-> a]

ExpandedAdj(adj, n, total) ==
  [r \in 0..(total - 1) |-> [c \in 0..(total - 1) |->
     IF r < n /\ c < n THEN adj[r][c] ELSE 0]]

load_graph(component_types, subcircuit_types, components, adj, omitted_idx) ==
  LET n == Len(components)
      T == Len(component_types)
      total == IF omitted_idx # -1 THEN n + T - 1 ELSE n + T
      types == ElementTypes(component_types, subcircuit_types, components)
      action_indices == ActionIndices(n, T, omitted_idx)
      action_types == ActionTypes(types, T, omitted_idx)
      x == [k \in 0..(total - 1) |-> [t \in 0..T |->
             IF \/ k < n /\ t = types[k]
                \/ \E a \in 0..(T - 1) : action_indices[a] = k /\ t = T
                \/ \E a \in 0..(T - 1) : action_indices[a] = k /\ t = action_types[a]
               THEN 1 ELSE 0]]
  IN [omitted_idx |-> omitted_idx, n |-> n, x |-> x, a |-> ExpandedAdj(adj, n, total)]

\* ------------------------------------------------------------ inputs
\* The element kinds the parser can hand over here: a resistor (two pins), a
\* coupled inductor (no pin), a subcircuit instance (1..MaxPins pins) and an
\* inductor (two pins), whose class the enumeration does not list.
SubcircuitNames == {Str("amp1"), Str("amp2")}

ElementKinds(names) ==
  {[cls |-> Cls("Resistor"), name |-> <<>>, pins |-> {2}],
   [cls |-> Cls("CoupledInductor"), name |-> <<>>, pins |-> {0}],
   [cls |-> Cls("Inductor"), name |-> <<>>, pins |-> {2}]}
  \cup {[cls |-> SubCircuitElement, name |-> nm, pins |-> 1..MaxPins] : nm \in names}

\* The parser creates a node at its first mention: node ids follow creation
\* order, so a pin names a node already created or the next new one.
RECURSIVE PinLists(_, _)
PinLists(len, known) ==
  IF len = 0 THEN {<<>>}
  ELSE UNION {{<<nd>> \o rest : rest \in PinLists(len - 1, IF nd > known THEN nd ELSE known)} :
              nd \in 1..(known + 1)}

RECURSIVE MaxNode(_)
MaxNode(elements) ==
  IF elements = <<>> THEN 0
  ELSE LET m == MaxNode(Tail(elements))
           h == MaxOf({0} \cup Range(Head(elements).pins))
       IN IF h > m THEN h ELSE m

\* All circuits of exactly k elements.
RECURSIVE CircuitsOf(_, _)
CircuitsOf(k, names) ==
  IF k = 0 THEN {<<>>}
  ELSE UNION {UNION {UNION {
         {Append(c, Element(k, kind.cls, kind.name, pins)) : pins \in PinLists(np, MaxNode(c))} :
           np \in kind.pins} :
           kind \in ElementKinds(names)} :
           c \in CircuitsOf(k - 1, names)}

InvalidText == [valid |-> FALSE, elements |-> <<>>]

\* The texts of at most b elements: the rejected one, and every circuit.
TextsUpTo(b, names) ==
  {InvalidText} \cup
  {[valid |-> TRUE, elements |-> c] : c \in UNION {CircuitsOf(k, names) : k \in 0..b}}

\* The corpora of exactly n texts holding at most b elements in all.
RECURSIVE CorporaOf(_, _, _)
CorporaOf(n, b, names) ==
  IF n = 0 THEN {<<>>}
  ELSE UNION {{<<f>> \o rest : rest \in CorporaOf(n - 1, b - Len(f.elements), names)} :
              f \in TextsUpTo(b, names)}

Corpora(names) == UNION {CorporaOf(n, MaxElements, names) : n \in 0..MaxFiles}

\* Lines of subcircuit-types.txt, as the file iterator yields them.
SideLines ==
  {<<"amp1", " ", "amp", "\n">>,
   <<"amp1", " ", "unknown", "\n">>,
   <<"amp2", " ", "amp", "\n">>,
   <<"amp2", " ", "opamp", "\n">>,
   <<"\n">>,
   <<"amp1", "\n">>,
   <<"amp1", " ", "\n">>,
   <<"amp1", " ", "amp", " ", "x", "\n">>,
   <<"amp1", " ", " ", "amp", "\n">>,
   <<"amp1", "\t", "amp", "\n">>}

SideFiles == SeqsOf(SideLines, 0, MaxLines)

\* The side files of the encoder runs: none, a novel label, a label that is
\* already the enumeration's first entry.
CoreSideFiles ==
  {<<>>, << <<"amp1", " ", "amp", "\n">> >>, << <<"amp1", " ", "unknown", "\n">> >>}

\* ------------------------------------------------------------ state
VARIABLES
  side_file,         \* lines of subcircuit-types.txt not read yet
  component_types,   \* the enumeration (module-level list)
  subcircuit_types,  \* subcircuit name -> label (module-level dict)
  textfiles,         \* the corpus handed to a loader
  sources,           \* the texts the running loader iterates over
  loader,            \* "none", "masked", "omitted", "proto": the loader that runs;
                     \* "is_valid", "encode_masked", "encode_omitted": a direct call
  train,             \* PrototypeLinkDataset.train
  pc,                \* "ready", "build", "encode", "resample", "done", "raised"
  error,             \* the exception that ended the run, "" if none
  graphs,            \* the canonical graphs built so far
  i,                 \* position in graphs / sources of the next file (1-based)
  start,             \* the loaders' local start
  element_types,     \* the encoder's local element_types of its last call
  A, X, y,           \* the loaders' tensors
  out,               \* PrototypeLinkDataset.read's local graphs, as its loop collects them
  ret,               \* what is_valid_netlist returned: <<>> until it returns
  resample,          \* PrototypeLinkDataset.resample
  graph_idx          \* read's local graph_idx (0-based positions in out): the graphs
                     \* read goes on with after resampling are out[i] for i in graph_idx

\* train_node_actions.py, from 'Fitting model' on.
VARIABLES
  epochs,            \* exp_config.epochs
  steps_per_epoch,   \* loader_tr.steps_per_epoch
  checkpoint_freq,   \* exp_config.checkpoint_freq
  tpc,               \* "idle" (script not run), "loop" (head of the for loop),
                     \* "set_weights", "best_model", "done", "exited", "raised"
  batches_left,      \* batches loader_tr has still to yield
  weights,           \* the model's weights: the number of optimizer updates they hold
  current_batch, epoch, iteration,
  loss,              \* train_step's last loss
  best_val_loss,
  best_weights,      \* <<>> for None, else <<w>>: the weights get_weights() returned
  saved              \* the names save_checkpoint was called with, in order

netlist == <<side_file, component_types, subcircuit_types, textfiles, sources, loader,
             train, pc, error, graphs, i, start, element_types, A, X, y, out, ret,
             resample, graph_idx>>

training == <<epochs, steps_per_epoch, checkpoint_freq, tpc, batches_left, weights,
              current_batch, epoch, iteration, loss, best_val_loss, best_weights, saved>>

vars == <<netlist, training>>

registry == <<component_types, subcircuit_types>>
tensors == <<A, X, y>>
sampling == <<resample, graph_idx>>

\* A loss value: a number, NaN or infinity.
Num(v) == [kind |-> "num", v |-> v]
NaN == [kind |-> "nan", v |-> 0]
Inf == [kind |-> "inf", v |-> 0]

\* The training script is not run.
ScriptIdle ==
  /\ epochs = 0 /\ steps_per_epoch = 0 /\ checkpoint_freq = 0
  /\ tpc = "idle"
  /\ batches_left = 0 /\ weights = 0
  /\ current_batch = 0 /\ epoch = 0 /\ iteration = 0
  /\ loss = Num(0) /\ best_val_loss = Inf /\ best_weights = <<>>
  /\ saved = <<>>

InitNetlist(sf, corpus) ==
  /\ side_file = sf
  /\ component_types = BuiltinComponentTypes
  /\ subcircuit_types = <<>>
  /\ textfiles = corpus
  /\ sources = <<>>
  /\ loader = "none"
  /\ train = FALSE
  /\ pc = "ready"
  /\ error = ""
  /\ graphs = <<>>
  /\ i = 1
  /\ start = 0
  /\ element_types = <<>>
  /\ A = <<>> /\ X = <<>> /\ y = <<>>
  /\ out = <<>>
  /\ resample = FALSE
  /\ graph_idx = <<>>
  /\ ret = <<>>

InitWith(sf, corpus) == InitNetlist(sf, corpus) /\ ScriptIdle

\* Encoder runs: a small side file, every corpus within the bounds.
Init == \E sf \in CoreSideFiles : \E corpus \in Corpora({Str("amp1")}) : InitWith(sf, corpus)

\* Registry runs: every side file within the bounds, a corpus of one netlist
\* of one element, each pin on a node of its own (at most two pins).
InitRegistry ==
  \E sf \in SideFiles :
    \E c \in {d \in CircuitsOf(1, SubcircuitNames) : d[1].pins \in {<<>>, <<1>>, <<1, 2>>}} :
      InitWith(sf, << [valid |-> TRUE, elements |-> c] >>)

\* ------------------------------------------------------------ actions
\* Module import: one iteration of the loop over the side file's lines.
ImportSideFileLine ==
  /\ pc = "ready" /\ side_file # <<>>
  /\ LET reg == LoadSideFileLine(
                  [component_types |-> component_types,
                   subcircuit_types |-> subcircuit_types], Head(side_file))
     IN /\ component_types' = reg.component_types
        /\ subcircuit_types' = reg.subcircuit_types
  /\ side_file' = Tail(side_file)
  /\ UNCHANGED <<textfiles, sources, loader, train, pc, error, graphs, i, start,
                 element_types, A, X, y, out, ret, sampling, training>>

\* graphs = [netlist_as_graph(textfile) for textfile in textfiles]: the first
\* text that raises ends the comprehension.
BuiltGraphs(texts) == [f \in 1..Len(texts) |-> netlist_as_graph(texts[f])]

FirstRaised(gs) ==
  IF \E f \in 1..Len(gs) : gs[f].raised # ""
    THEN gs[CHOOSE f \in 1..Len(gs) :
              gs[f].raised # "" /\ \A g \in 1..(f - 1) : gs[g].raised = ""].raised
    ELSE ""

Counts(gs) == [f \in 1..Len(gs) |-> Len(gs[f].component_list)]

\* load_masked_netlists / load_omitted_netlists up to the loop: the graphs,
\* counts, max_components, data_count and the zero tensors.  max() of an
\* empty list raises ValueError.
BeginLoad(which) ==
  /\ pc = "ready" /\ side_file = <<>>
  /\ loader' = which
  /\ sources' = textfiles
  /\ LET gs == BuiltGraphs(textfiles)
         T == Len(component_types)
     IN IF FirstRaised(gs) # ""
          THEN /\ pc' = "raised" /\ error' = FirstRaised(gs)
               /\ UNCHANGED <<graphs, A, X, y>>
          ELSE IF gs = <<>>
            THEN /\ pc' = "raised" /\ error' = "ValueError"
                 /\ graphs' = gs
                 /\ UNCHANGED <<A, X, y>>
            ELSE LET max_components == MaxOf(Range(Counts(gs)))
                     data_count == SumSeq(Counts(gs))
                 IN /\ pc' = "encode" /\ error' = ""
                    /\ graphs' = gs
                    /\ A' = Zeros3(data_count, max_components, max_components)
                    /\ X' = Zeros3(data_count, max_components, T)
                    /\ y' = IF which = "masked"
                              THEN Zeros3(data_count, max_components, T)
                              ELSE Zeros2(data_count, T)
  /\ i' = 1 /\ start' = 0
  /\ UNCHANGED <<side_file, registry, textfiles, train, element_types, out, ret, sampling, training>>

LoadMaskedNetlistsBegin == BeginLoad("masked")

LoadOmittedNetlistsBegin == BeginLoad("omitted")

\* One iteration of load_masked_netlists' loop: encode_masked_netlist on the
\* slices [start:end].  An entity without a type index raises ValueError
\* before anything is written.
EncodeMaskedFile ==
  /\ pc = "encode" /\ loader = "masked"
  /\ LET g == graphs[i]
         n == Len(g.component_list)
         end == start + n
         types == ElementTypes(component_types, subcircuit_types, g.component_list)
     IN /\ element_types' = types
        /\ IF \E k \in DOMAIN types : types[k] = -1
             THEN /\ pc' = "raised" /\ error' = "ValueError"
                  /\ UNCHANGED <<A, X, y, i, start>>
             ELSE /\ X' = MaskedX(X, types, n, start, end)
                  /\ y' = SetTypeRows(y, types, n, start, end)
                  /\ A' = MaskedA(A, g.adj, n, start, end)
                  /\ start' = end
                  /\ i' = i + 1
                  /\ pc' = IF i = Len(graphs) THEN "done" ELSE "encode"
                  /\ UNCHANGED error
  /\ UNCHANGED <<side_file, registry, textfiles, sources, loader, train, graphs, out, ret, sampling, training>>

\* The graph as an encoder that cleared row and column idx of adj itself,
\* for every idx in turn, would leave it.
ZeroedInPlace(g) ==
  [g EXCEPT !.adj = [r \in DOMAIN g.adj |-> [c \in DOMAIN g.adj[r] |-> 0]]]

EncodeOmittedFileBody(graphsAfter) ==
  /\ pc = "encode" /\ loader = "omitted"
  /\ LET g == graphs[i]
         n == Len(g.component_list)
         end == start + n
         types == ElementTypes(component_types, subcircuit_types, g.component_list)
     IN /\ element_types' = types
        /\ IF \E k \in DOMAIN types : types[k] = -1
             THEN /\ pc' = "raised" /\ error' = "ValueError"
                  /\ UNCHANGED <<A, X, y, i, start, graphs>>
             ELSE /\ X' = OmittedX(X, types, n, start, end)
                  /\ y' = OmittedY(y, types, n, start, end)
                  /\ A' = OmittedA(A, g.adj, n, start, end)
                  /\ start' = end
                  /\ i' = i + 1
                  /\ pc' = IF i = Len(graphs) THEN "done" ELSE "encode"
                  /\ graphs' = graphsAfter
                  /\ UNCHANGED error
  /\ UNCHANGED <<side_file, registry, textfiles, sources, loader, train, out, ret, sampling, training>>

EncodeOmittedFileInPlace ==
  EncodeOmittedFileBody([graphs EXCEPT ![i] = ZeroedInPlace(@)])

\* One iteration of load_omitted_netlists' loop: encode_omitted_netlist on the
\* slices; adj is only read (A[idx, :n, :n] = adj copies it).
EncodeOmittedFile == EncodeOmittedFileBody(graphs)

\* The zero tensors a caller hands to an encoder for a graph of n entities:
\* fitting (n samples, n entities, as load_masked_netlist allocates them), one
\* sample short, or one entity short; never empty.
CallerShapes(n) ==
  {sh \in {[samples |-> n, entities |-> n],
           [samples |-> n - 1, entities |-> n],
           [samples |-> n, entities |-> n - 1]} : sh.samples >= 1 /\ sh.entities >= 1}

\* A call of encode_masked_netlist or encode_omitted_netlist from an importing
\* module that encodes one netlist by itself, as load_masked_netlist does: the
\* corpus is that one text, the tensors are the caller's.
EncoderCall(which) ==
  /\ pc = "ready" /\ side_file = <<>>
  /\ Len(textfiles) = 1
  /\ loader' = which
  /\ LET g == netlist_as_graph(textfiles[1])
         n == Len(g.component_list)
         T == Len(component_types)
         types == ElementTypes(component_types, subcircuit_types, g.component_list)
     IN /\ g.raised = ""
        /\ sources' = textfiles
        /\ graphs' = <<g>>
        /\ element_types' = types
        /\ \E sh \in CallerShapes(n) :
             LET A0 == Zeros3(sh.samples, sh.entities, sh.entities)
                 X0 == Zeros3(sh.samples, sh.entities, T)
                 y0 == IF which = "encode_masked"
                         THEN Zeros3(sh.samples, sh.entities, T)
                         ELSE Zeros2(sh.samples, T)
             IN IF \E k \in DOMAIN types : types[k] = -1
                  THEN /\ pc' = "raised" /\ error' = "ValueError"
                       /\ A' = A0 /\ X' = X0 /\ y' = y0
                       /\ UNCHANGED i
                  ELSE LET r == IF which = "encode_masked"
                                  THEN encode_masked_netlist(types, g.adj, n, A0, X0, y0)
                                  ELSE encode_omitted_netlist(types, g.adj, n, A0, X0, y0)
                       IN /\ pc' = IF r.raised # "" THEN "raised" ELSE "done"
                          /\ error' = r.raised
                          /\ A' = r.A /\ X' = r.X /\ y' = r.y
                          /\ i' = i + 1
  /\ UNCHANGED <<side_file, registry, textfiles, train, start, out, ret, sampling, training>>

EncodeMaskedNetlistCall == EncoderCall("encode_masked")

EncodeOmittedNetlistCall == EncoderCall("encode_omitted")

\* is_valid_netlist(textfile, name=None); name is <<>> for None.  In the
\* except branch a name that is given makes the function evaluate sys.stderr,
\* and the module binds sys only under `if __name__ == '__main__'`: in an
\* importing program the name is unbound and NameError leaves the function.
is_valid_netlist(textfile, name) ==
  IF textfile.valid THEN [raised |-> "", value |-> <<TRUE>>]
  ELSE IF name # <<>> THEN [raised |-> "NameError", value |-> <<>>]
  ELSE [raised |-> "", value |-> <<FALSE>>]

\* The name argument: None, or a file name.
NetlistNames == {<<>>, Str("netlist.cir")}

\* A call of is_valid_netlist from an importing module on one text of the
\* corpus.
IsValidNetlistCall ==
  /\ pc = "ready" /\ side_file = <<>>
  /\ loader' = "is_valid"
  /\ \E f \in 1..Len(textfiles) : \E name \in NetlistNames :
       LET r == is_valid_netlist(textfiles[f], name)
       IN /\ sources' = <<textfiles[f]>>
          /\ pc' = IF r.raised # "" THEN "raised" ELSE "done"
          /\ error' = r.raised
          /\ ret' = r.value
  /\ UNCHANGED <<side_file, registry, textfiles, train, graphs, i, start, element_types,
                 A, X, y, out, sampling, training>>

\* helpers.valid_netlist_sources: the texts is_valid_netlist accepts, in order.
valid_netlist_sources(texts) == SelectSeq(texts, LAMBDA t : t.valid)

\* np.argmax of a vector: the first position of its largest entry.
Argmax(row) ==
  CHOOSE t \in DOMAIN row :
    /\ \A u \in DOMAIN row : row[u] <= row[t]
    /\ \A u \in DOMAIN row : u < t => row[u] < row[t]

\* graph_label_type: label_idx = np.argmax(graph.y), then the argmax of row
\* label_idx of graph.x.  load_graph builds Graph(x=x, a=a), so graph.y is
\* None here, np.argmax(None) is 0 and the row read is row 0.
graph_label_type(graph) == Argmax(graph.x[0])

\* The members of a set of integers in increasing order.
RECURSIVE Ascending(_)
Ascending(S) ==
  IF S = {} THEN <<>>
  ELSE LET m == CHOOSE x \in S : \A z \in S : x <= z
       IN <<m>> \o Ascending(S \ {m})

\* read's dict graphs_by_label as the sequence of its values: one list of
\* graph positions (0-based, increasing) per label, the labels in the order
\* of their first graph.
graphs_by_label(gs) ==
  LET label == [k \in 1..Len(gs) |-> graph_label_type(gs[k])]
      firsts == Ascending({k \in 1..Len(gs) : \A j \in 1..(k - 1) : label[j] # label[k]})
  IN [q \in 1..Len(firsts) |->
        Ascending({k - 1 : k \in {k \in 1..Len(gs) : label[k] = label[firsts[q]]}})]

\* counts, sorted: counts = [len(vals) ...]; counts.sort().
SortedCounts(by_label) ==
  LET RECURSIVE Insert(_, _)
      Insert(c, sorted) ==
        IF sorted = <<>> \/ c <= sorted[1] THEN <<c>> \o sorted
        ELSE <<sorted[1]>> \o Insert(c, Tail(sorted))
      RECURSIVE Sort(_)
      Sort(cs) == IF cs = <<>> THEN <<>> ELSE Insert(cs[1], Sort(Tail(cs)))
  IN Sort([q \in 1..Len(by_label) |-> Len(by_label[q])])

\* The first value read gives median_count: counts[len(counts)//2].
MiddleCount(counts) == counts[(Len(counts) \div 2) + 1]

\* The value median_count has when it is used: the next statement overwrites
\* it with min(counts).
median_count(counts) == CHOOSE m \in Range(counts) : \A c \in Range(counts) : m <= c

\* random.sample(population, k): any k members of the list, no position
\* taken twice, in any order.
random_sample(population, k) ==
  {[q \in 1..k |-> population[pos[q]]] :
     pos \in {p \in [1..k -> 1..Len(population)] :
                \A a, b \in 1..k : a # b => p[a] # p[b]}}

\* The lists graph_idx can become: per label, a sample of median_count
\* positions if the label holds more, else the label's own list; extended
\* in the dict's order.
RECURSIVE GraphIdxChoices(_, _)
GraphIdxChoices(by_label, median) ==
  IF by_label = <<>> THEN {<<>>}
  ELSE LET label_idx == by_label[1]
           idxs == IF Len(label_idx) > median
                     THEN random_sample(label_idx, median)
                     ELSE {label_idx}
       IN {idx \o rest : idx \in idxs, rest \in GraphIdxChoices(Tail(by_label), median)}

\* read() after its loop, "if self.resample:": with resample the resampling
\* block runs next, without it read returns the graphs collected.
ReadLoopEnd ==
  \E rs \in BOOLEAN :
    /\ resample' = rs
    /\ pc' = IF rs THEN "resample" ELSE "done"

\* PrototypeLinkDataset.__init__ up to read()'s loop over self.filenames.
\* The dataset is built with normalize=False: normalize_graphs rescales x in
\* floating point and touches neither the list of graphs nor its order.  The
\* constructor's resample argument is drawn where read() first reads it, at
\* the end of the loop (ReadLoopEnd).
PrototypeLinkDatasetInit ==
  /\ pc = "ready" /\ side_file = <<>>
  /\ loader' = "proto"
  /\ \E tr \in BOOLEAN : train' = tr
  /\ sources' = valid_netlist_sources(textfiles)
  /\ IF sources' # <<>> THEN pc' = "build" /\ UNCHANGED resample ELSE ReadLoopEnd
  /\ i' = 1
  /\ UNCHANGED <<side_file, registry, textfiles, error, graphs, start, element_types,
                 A, X, y, out, ret, graph_idx, training>>

\* load_graphs, first statement: (components, adj) = h.netlist_as_graph(source).
LoadGraphsBuild ==
  /\ pc = "build" /\ loader = "proto"
  /\ LET g == netlist_as_graph(sources[i])
     IN IF g.raised # ""
          THEN /\ pc' = "raised" /\ error' = g.raised /\ UNCHANGED graphs
          ELSE /\ pc' = "encode" /\ graphs' = Append(graphs, g) /\ UNCHANGED error
  /\ UNCHANGED <<side_file, registry, textfiles, sources, loader, train, i, start,
                 element_types, A, X, y, out, ret, sampling, training>>

\* load_graphs, the rest, as read() consumes it: load_graph once per entity
\* (train) or once without an omitted entity; graphs.extend(...).
LoadGraphCalls ==
  /\ pc = "encode" /\ loader = "proto"
  /\ LET g == graphs[i]
         n == Len(g.component_list)
         types == ElementTypes(component_types, subcircuit_types, g.component_list)
     IN /\ element_types' = types
        /\ IF \E k \in DOMAIN types : types[k] = -1
             THEN /\ pc' = "raised" /\ error' = "ValueError"
                  /\ UNCHANGED <<out, i, resample>>
             ELSE /\ out' = out \o
                       (IF train
                          THEN [idx \in 1..n |->
                                  load_graph(component_types, subcircuit_types,
                                             g.component_list, g.adj, idx - 1)]
                          ELSE << load_graph(component_types, subcircuit_types,
                                             g.component_list, g.adj, -1) >>)
                  /\ i' = i + 1
                  /\ IF i # Len(sources) THEN pc' = "build" /\ UNCHANGED resample
                                          ELSE ReadLoopEnd
                  /\ UNCHANGED error
  /\ UNCHANGED <<side_file, registry, textfiles, sources, loader, train, graphs, start,
                 A, X, y, ret, graph_idx, training>>

\* read(), the block under "if self.resample": group the graphs by label,
\* take the class size to keep, sample every larger class down to it.  With
\* no graph at all counts is empty and counts[middle_idx] raises IndexError.
ReadResample ==
  /\ pc = "resample" /\ loader = "proto"
  /\ LET by_label == graphs_by_label(out)
         counts == SortedCounts(by_label)
     IN IF counts = <<>>
          THEN /\ pc' = "raised" /\ error' = "IndexError"
               /\ UNCHANGED graph_idx
          ELSE /\ \E idx \in GraphIdxChoices(by_label, median_count(counts)) :
                    graph_idx' = idx
               /\ pc' = "done"
               /\ UNCHANGED error
  /\ UNCHANGED <<side_file, registry, textfiles, sources, loader, train, graphs, i, start,
                 element_types, A, X, y, out, ret, resample, training>>

Next ==
  \/ ImportSideFileLine
  \/ LoadMaskedNetlistsBegin
  \/ LoadOmittedNetlistsBegin
  \/ EncodeMaskedFile
  \/ EncodeOmittedFile
  \/ PrototypeLinkDatasetInit
  \/ LoadGraphsBuild
  \/ LoadGraphCalls
  \/ ReadResample
  \/ IsValidNetlistCall
  \/ EncodeMaskedNetlistCall
  \/ EncodeOmittedNetlistCall

Spec == Init /\ [][Next]_vars

SpecRegistry == InitRegistry /\ [][Next]_vars

\* ------------------------------------------------------------ training script
\* a < b on loss values, as Python floats compare: false whenever a is NaN
\* or infinity, true for a number below infinity.
Less(a, b) ==
  /\ a.kind = "num"
  /\ \/ b.kind = "inf"
     \/ b.kind = "num" /\ a.v < b.v

\* The losses a training step can return.
Losses == {Num(v) : v \in 1..MaxLoss} \cup {NaN}

\* str(n) of a natural number, one piece per decimal digit.
RECURSIVE DecimalStr(_)
DecimalStr(n) ==
  LET digit(d) == <<"0", "1", "2", "3", "4", "5", "6", "7", "8", "9">>[d + 1]
  IN IF n < 10 THEN <<digit(n)>> ELSE DecimalStr(n \div 10) \o <<digit(n % 10)>>

\* str.zfill(width): "0" pieces in front up to the width.
RECURSIVE ZFill(_, _)
ZFill(str, width) == IF Len(str) >= width THEN str ELSE ZFill(<<"0">> \o str, width)

\* f'checkpoint_{str(epoch).zfill(epoch_len)}', epoch_len = len(str(epochs)).
CheckpointName(ep, eps) == <<"checkpoint_">> \o ZFill(DecimalStr(ep), Len(DecimalStr(eps)))

BestModelName == <<"best_model">>

\* exp_config.checkpoint_freq > 0 and epoch % exp_config.checkpoint_freq == 0,
\* the test of the in-loop save.
CheckpointDue(freq, ep) == freq > 0 /\ ep % freq = 0

\* has_saved_model after the loop.
HasSavedModelNever(freq, ep) == FALSE

has_saved_model(freq, ep) == freq > 0 /\ ep % freq = 0

\* The state at 'Fitting model': the counters and best_* as initialised, the
\* loader about to yield epochs * steps_per_epoch batches, nothing saved.
InitTrain ==
  /\ InitNetlist(<<>>, <<>>)
  /\ epochs \in 0..MaxEpochs
  /\ steps_per_epoch \in 1..MaxSteps
  /\ checkpoint_freq \in (-1)..MaxFreq
  /\ tpc = "loop"
  /\ batches_left = epochs * steps_per_epoch
  /\ weights = 0
  /\ current_batch = 0 /\ epoch = 0 /\ iteration = 0
  /\ loss = Num(0)
  /\ best_val_loss = Inf
  /\ best_weights = <<>>
  /\ saved = <<>>

\* One pass of the for loop's body: train_step on the next batch (exit() on
\* a NaN gradient, else one optimizer update and a loss), the counters, and
\* at the end of an epoch the best-loss test, the in-loop checkpoint and the
\* reset of current_batch.
TrainBatch ==
  /\ tpc = "loop" /\ batches_left > 0
  /\ \E has_nan \in BOOLEAN : \E l \in Losses :
       IF has_nan
         THEN /\ tpc' = "exited"
              /\ UNCHANGED <<batches_left, weights, current_batch, epoch, iteration, loss,
                             best_val_loss, best_weights, saved>>
         ELSE /\ batches_left' = batches_left - 1
              /\ weights' = weights + 1
              /\ loss' = l
              /\ iteration' = iteration + 1
              /\ IF current_batch + 1 = steps_per_epoch
                   THEN /\ epoch' = epoch + 1
                        /\ IF Less(l, best_val_loss)
                             THEN best_val_loss' = l /\ best_weights' = <<weights'>>
                             ELSE UNCHANGED <<best_val_loss, best_weights>>
                        /\ saved' = IF CheckpointDue(checkpoint_freq, epoch')
                                      THEN Append(saved, CheckpointName(epoch', epochs))
                                      ELSE saved
                        /\ current_batch' = 0
                   ELSE /\ current_batch' = current_batch + 1
                        /\ UNCHANGED <<epoch, best_val_loss, best_weights, saved>>
              /\ UNCHANGED tpc
  /\ UNCHANGED <<netlist, epochs, steps_per_epoch, checkpoint_freq>>

\* The loader is exhausted: has_saved_model and the checkpoint of the final
\* epoch count.
LoopEnd ==
  /\ tpc = "loop" /\ batches_left = 0
  /\ saved' = IF has_saved_model(checkpoint_freq, epoch)
                THEN saved
                ELSE Append(saved, CheckpointName(epoch, epochs))
  /\ tpc' = "set_weights"
  /\ UNCHANGED <<netlist, epochs, steps_per_epoch, checkpoint_freq, batches_left, weights,
                 current_batch, epoch, iteration, loss, best_val_loss, best_weights>>

\* model.set_weights(best_weights): Keras takes len(weights) first, which
\* raises TypeError for None.
SetBestWeights ==
  /\ tpc = "set_weights"
  /\ IF best_weights = <<>>
       THEN tpc' = "raised" /\ UNCHANGED weights
       ELSE tpc' = "best_model" /\ weights' = best_weights[1]
  /\ UNCHANGED <<netlist, epochs, steps_per_epoch, checkpoint_freq, batches_left,
                 current_batch, epoch, iteration, loss, best_val_loss, best_weights, saved>>

\* save_checkpoint('best_model', model).
SaveBestModel ==
  /\ tpc = "best_model"
  /\ saved' = Append(saved, BestModelName)
  /\ tpc' = "done"
  /\ UNCHANGED <<netlist, epochs, steps_per_epoch, checkpoint_freq, batches_left, weights,
                 current_batch, epoch, iteration, loss, best_val_loss, best_weights>>

NextTrain ==
  \/ TrainBatch
  \/ LoopEnd
  \/ SetBestWeights
  \/ SaveBestModel

SpecTrain == InitTrain /\ [][NextTrain]_vars

\* ------------------------------------------------------------ properties
\* The graphs built without an exception.
Built == {f \in 1..Len(graphs) : graphs[f].raised = ""}

Count(f) == Len(graphs[f].component_list)

\* Entity e is an element one of whose pins is attached to node entity nd.
Attached(e, nd) == e.kind = "element" /\ nd.kind = "node" /\ nd.id \in Range(e.pins)

HasEdge(g) == \E r \in DOMAIN g.adj : \E c \in DOMAIN g.adj : g.adj[r][c] = 1

\* C1: in every graph netlist_as_graph returns, the adjacency matrix is
\* square over the indices of the entity list, and adjacency[i][j] is 1
\* exactly when one of the entities i, j is an element and the other a node
\* attached to one of its pins, and 0 otherwise: row and column k stand for
\* the entity at index k of the list.
C1_AdjacencyIffAttached ==
  \A f \in Built :
    LET g == graphs[f]
        n == Count(f)
    IN /\ DOMAIN g.adj = 0..(n - 1)
       /\ \A r \in 0..(n - 1) :
            /\ DOMAIN g.adj[r] = 0..(n - 1)
            /\ \A c \in 0..(n - 1) :
                 g.adj[r][c] =
                   IF \/ Attached(g.component_list[r + 1], g.component_list[c + 1])
                      \/ Attached(g.component_list[c + 1], g.component_list[r + 1])
                     THEN 1 ELSE 0

\* A graph of two elements sharing a node, with a node attached to only one.
C1_Witness ==
  \E f \in Built :
    LET g == graphs[f]
    IN /\ Count(f) >= 4
       /\ \E nd \in 1..Count(f) :
            /\ g.component_list[nd].kind = "node"
            /\ Cardinality({e \in 1..Count(f) : g.adj[e - 1][nd - 1] = 1}) = 2
       /\ \E nd \in 1..Count(f) :
            /\ g.component_list[nd].kind = "node"
            /\ Cardinality({e \in 1..Count(f) : g.adj[e - 1][nd - 1] = 1}) = 1

\* The position (1-based) of entity e in the list cl, 0 if absent.
Pos(cl, e) == IndexOf(cl, e) + 1

\* The first element (by declared position) with a pin on node id nd.
FirstUser(elements, nd) ==
  CHOOSE a \in 1..Len(elements) :
    /\ nd \in Range(elements[a].pins)
    /\ \A b \in 1..(a - 1) : nd \notin Range(elements[b].pins)

\* The first pin of element e attached to node id nd.
FirstPin(e, nd) ==
  CHOOSE p \in 1..Len(e.pins) :
    e.pins[p] = nd /\ \A q \in 1..(p - 1) : e.pins[q] # nd

NodeIds(elements) == UNION {Range(elements[a].pins) : a \in 1..Len(elements)}

\* C2: the entity list holds every element and every pin-attached node exactly
\* once and nothing else, in first-seen order: elements in declared order, each
\* node after the first element that uses it and before the next element, the
\* nodes first seen at one element in the order of their first pins.
C2_FirstSeenOrder ==
  \A f \in Built :
    LET cl == graphs[f].component_list
        elements == sources[f].elements
    IN /\ \A p, q \in 1..Len(cl) : p # q => cl[p] # cl[q]
       /\ Range(cl) = Range(elements) \cup {NodeOf(nd) : nd \in NodeIds(elements)}
       /\ \A a, b \in 1..Len(elements) :
            a < b => Pos(cl, elements[a]) < Pos(cl, elements[b])
       /\ \A nd \in NodeIds(elements) :
            LET a == FirstUser(elements, nd)
            IN /\ Pos(cl, elements[a]) < Pos(cl, NodeOf(nd))
               /\ a < Len(elements) => Pos(cl, NodeOf(nd)) < Pos(cl, elements[a + 1])
       /\ \A nd, md \in NodeIds(elements) :
            (/\ FirstUser(elements, nd) = FirstUser(elements, md)
             /\ FirstPin(elements[FirstUser(elements, nd)], nd)
                  < FirstPin(elements[FirstUser(elements, md)], md))
              => Pos(cl, NodeOf(nd)) < Pos(cl, NodeOf(md))

\* Two elements, the second with a pin on a node of the first and a pin on a
\* new node: the shared node is listed once, before the second element.
C2_Witness ==
  \E f \in Built :
    LET cl == graphs[f].component_list
        elements == sources[f].elements
    IN /\ Len(elements) = 2
       /\ Len(cl) = 5
       /\ \E nd \in Range(elements[1].pins) : nd \in Range(elements[2].pins)
       /\ cl[4] = elements[2]
       /\ cl[5].kind = "node"

IsSymmetric(M) ==
  \A r \in DOMAIN M : \A c \in DOMAIN M[r] : M[r][c] = M[c][r] /\ (r = c => M[r][c] = 0)

\* C3: the canonical adjacency of every graph, every adjacency sample of the
\* masked and of the omission encoder, and the adjacency of every graph of
\* load_graph is symmetric with a zero diagonal.
C3_AdjacencySymmetric ==
  /\ \A f \in Built : IsSymmetric(graphs[f].adj)
  /\ loader \in {"masked", "omitted"} => \A s \in DOMAIN A : IsSymmetric(A[s])
  /\ \A o \in 1..Len(out) : IsSymmetric(out[o].a)

\* The omission encoder has written a sample that keeps an edge.
C3_Witness ==
  /\ loader = "omitted" /\ pc = "done"
  /\ \E s \in DOMAIN A : \E r \in DOMAIN A[s] : \E c \in DOMAIN A[s][r] : A[s][r][c] = 1

\* C4: in every canonical graph, every 1 of the adjacency matrix joins one
\* element and one node.
C4_Bipartite ==
  \A f \in Built :
    LET g == graphs[f]
    IN \A r \in DOMAIN g.adj : \A c \in DOMAIN g.adj[r] :
         g.adj[r][c] = 1 => g.component_list[r + 1].kind # g.component_list[c + 1].kind

\* A graph with two elements and two nodes, and an edge.
C4_Witness ==
  \E f \in Built :
    /\ HasEdge(graphs[f])
    /\ Cardinality({p \in 1..Count(f) : graphs[f].component_list[p].kind = "element"}) = 2
    /\ Cardinality({p \in 1..Count(f) : graphs[f].component_list[p].kind = "node"}) = 2

\* The sample offset of file f: the entity counts of the files before it.
RECURSIVE Offset(_)
Offset(f) == IF f = 1 THEN 0 ELSE Offset(f - 1) + Count(f - 1)

\* The files an encoder call has encoded.
Encoded == 1..(i - 1)

TypesOf(f) == ElementTypes(component_types, subcircuit_types, graphs[f].component_list)

OneHot(t, T) == [u \in 0..(T - 1) |-> IF u = t THEN 1 ELSE 0]

NumTypes == Len(component_types)

\* The unmasked feature matrix of file f in a sample of m rows: the one-hot of
\* every entity's type, zero rows after the last entity.
Unmasked(f, m) ==
  [k \in 0..(m - 1) |->
     IF k < Count(f) THEN OneHot(TypesOf(f)[k], NumTypes) ELSE [u \in 0..(NumTypes - 1) |-> 0]]

Padded(adj, n, m) ==
  [r \in 0..(m - 1) |-> [c \in 0..(m - 1) |-> IF r < n /\ c < n THEN adj[r][c] ELSE 0]]

MaxCount == MaxOf({Count(f) : f \in 1..Len(graphs)})

\* C5: the masked encoder gives a graph of n entities exactly n samples (the
\* files' samples follow each other); in sample idx, y is the unmasked
\* one-hot matrix, X equals y except in row idx, which is the one-hot of
\* 'unknown' (index 0), and A is the canonical adjacency, zero-padded; putting
\* row idx of y back into X gives the unmasked matrix.
C5_MaskedSamples ==
  (loader = "masked" /\ pc \in {"encode", "done", "raised"} /\ graphs # <<>>) =>
    /\ start = Offset(i)
    /\ pc = "done" => DOMAIN X = 0..(start - 1) /\ DOMAIN y = DOMAIN X /\ DOMAIN A = DOMAIN X
    /\ \A f \in Encoded : \A idx \in 0..(Count(f) - 1) :
         LET s == Offset(f) + idx
         IN /\ y[s] = Unmasked(f, MaxCount)
            /\ \A k \in 0..(MaxCount - 1) : k # idx => X[s][k] = y[s][k]
            /\ X[s][idx] = OneHot(0, NumTypes)
            /\ A[s] = Padded(graphs[f].adj, Count(f), MaxCount)
            /\ [X[s] EXCEPT ![idx] = y[s][idx]] = Unmasked(f, MaxCount)

\* The masked encoder has encoded an entity whose true type is index 0.
C5_Witness ==
  /\ loader = "masked" /\ pc = "done"
  /\ \E k \in DOMAIN element_types : element_types[k] = 0
  /\ \E k \in DOMAIN element_types : element_types[k] > 0

\* C6: in the omission encoder's sample for entity idx, row idx and column idx
\* of the adjacency are all zero and the label is the one-hot of the entity's
\* true type.
C6_OmittedDisconnectedAndLabelled ==
  (loader = "omitted" /\ pc \in {"encode", "done", "raised"} /\ graphs # <<>>) =>
    \A f \in Encoded : \A idx \in 0..(Count(f) - 1) :
      LET s == Offset(f) + idx
      IN /\ \A c \in DOMAIN A[s] : A[s][idx][c] = 0 /\ A[s][c][idx] = 0
         /\ y[s] = OneHot(TypesOf(f)[idx], NumTypes)

\* The omission encoder has encoded a graph in which some entity has an edge.
C6_Witness ==
  /\ loader = "omitted" /\ pc = "done"
  /\ \E f \in Encoded : HasEdge(graphs[f]) /\ Count(f) >= 3

RowSum(M, r) == SumTo(M[r], Cardinality(DOMAIN M[r]))
ColSum(M, c) == SumTo([r \in DOMAIN M |-> M[r][c]], Cardinality(DOMAIN M))

\* C7, as claimed: in the omission encoder's sample for entity idx, every other
\* row and column keeps the degree it has in the canonical adjacency.
C7_OtherDegreesRetained ==
  (loader = "omitted" /\ pc \in {"encode", "done", "raised"} /\ graphs # <<>>) =>
    \A f \in Encoded : \A idx \in 0..(Count(f) - 1) : \A j \in 0..(Count(f) - 1) :
      j # idx =>
        /\ RowSum(A[Offset(f) + idx], j) = RowSum(graphs[f].adj, j)
        /\ ColSum(A[Offset(f) + idx], j) = ColSum(graphs[f].adj, j)

\* C7, amended: every other row and column j loses exactly its edge to the
\* omitted entity: its sum is the canonical one minus adjacency[j][idx].
C7_OtherDegreesLoseEdgeToOmitted ==
  (loader = "omitted" /\ pc \in {"encode", "done", "raised"} /\ graphs # <<>>) =>
    \A f \in Encoded : \A idx \in 0..(Count(f) - 1) : \A j \in 0..(Count(f) - 1) :
      j # idx =>
        /\ RowSum(A[Offset(f) + idx], j) = RowSum(graphs[f].adj, j) - graphs[f].adj[j][idx]
        /\ ColSum(A[Offset(f) + idx], j) = ColSum(graphs[f].adj, j) - graphs[f].adj[idx][j]

\* The omission encoder has encoded an element with two distinct nodes: in the
\* sample of one node the element keeps its edge to the other.
C7_Witness ==
  /\ loader = "omitted" /\ pc = "done"
  /\ \E f \in Encoded : \E j \in 0..(Count(f) - 1) : RowSum(graphs[f].adj, j) = 2

VecSum(v) == SumTo(v, Cardinality(DOMAIN v))

AllZero(v) == \A u \in DOMAIN v : v[u] = 0

\* Row k of X (and of a masked y) in sample s of file f sums to 1 when k is an
\* entity of the file and is all zero when it is padding; hidden(s, k) tells
\* the rows exempted from the sum.
RowsAssertOneType(T3, hidden(_, _)) ==
  \A f \in Encoded : \A idx \in 0..(Count(f) - 1) :
    LET s == Offset(f) + idx
    IN \A k \in DOMAIN T3[s] :
         IF k >= Count(f) THEN AllZero(T3[s][k])
         ELSE IF hidden(idx, k) THEN AllZero(T3[s][k])
         ELSE VecSum(T3[s][k]) = 1

NoRow(idx, k) == FALSE
HiddenRow(idx, k) == k = idx

LabelsAssertOneType ==
  \A f \in Encoded : \A idx \in 0..(Count(f) - 1) : VecSum(y[Offset(f) + idx]) = 1

\* C8, as claimed: in every X and y of the masked and of the omission encoder
\* each row of a real entity sums to 1 and each padded row is all zero.
C8_EveryRealRowSumsToOne ==
  (loader \in {"masked", "omitted"} /\ pc \in {"encode", "done", "raised"} /\ graphs # <<>>) =>
    /\ RowsAssertOneType(X, NoRow)
    /\ IF loader = "masked" THEN RowsAssertOneType(y, NoRow) ELSE LabelsAssertOneType

\* C8, amended: as claimed, except that in the omission encoder's X the row of
\* the hidden entity (row idx of sample idx) is all zero.
C8_RealRowsSumToOneButOmittedHidden ==
  (loader \in {"masked", "omitted"} /\ pc \in {"encode", "done", "raised"} /\ graphs # <<>>) =>
    /\ loader = "masked" => RowsAssertOneType(X, NoRow) /\ RowsAssertOneType(y, NoRow)
    /\ loader = "omitted" => RowsAssertOneType(X, HiddenRow) /\ LabelsAssertOneType

\* Two files of different entity counts are encoded: the smaller one's samples
\* have padded rows.
C8_Witness ==
  /\ loader \in {"masked", "omitted"} /\ pc = "done"
  /\ Len(graphs) = 2 /\ Count(1) # Count(2)

\* C9: the encoders and load_graph only read the canonical graph: whatever
\* they have been called on, every graph still is the graph netlist_as_graph
\* built from its text, entity list and adjacency alike.
C9_CanonicalGraphUnchanged ==
  \A f \in 1..Len(graphs) : graphs[f] = netlist_as_graph(sources[f])

\* The omission encoder has cleared an edge in a sample; the graph has it.
C9_Witness ==
  /\ loader = "omitted" /\ pc = "done"
  /\ \E f \in Encoded : \E idx, c \in 0..(Count(f) - 1) :
       graphs[f].adj[idx][c] = 1 /\ A[Offset(f) + idx][idx][c] = 0

\* The file whose entities element_types holds: the one whose encoder call
\* raised, else the last one encoded.
LastCalled == IF pc = "raised" /\ error = "ValueError" THEN i ELSE i - 1

Registered(cls) == cls \in Range(BuiltinComponentTypes)

\* C10: get_component_type_index gives a Node index 6; a subcircuit instance
\* whose name the side file maps, the index of the mapped label; a subcircuit
\* instance of another name, index 5; any other element of a listed class, the
\* index of that class.
C10_TypeIndexByKind ==
  element_types # <<>> =>
    LET cl == graphs[LastCalled].component_list
    IN /\ DOMAIN element_types = 0..(Len(cl) - 1)
       /\ \A k \in DOMAIN element_types :
            LET e == cl[k + 1]
                t == element_types[k]
            IN /\ e.kind = "node" => t = 6
               /\ (e.cls = SubCircuitElement /\ e.subcircuit_name \in DOMAIN subcircuit_types) =>
                    /\ t >= 0
                    /\ component_types[t + 1] = subcircuit_types[e.subcircuit_name]
                    /\ \A u \in 1..t : component_types[u] # component_types[t + 1]
               /\ (e.cls = SubCircuitElement /\ e.subcircuit_name \notin DOMAIN subcircuit_types) =>
                    t = 5
               /\ (e.kind = "element" /\ e.cls # SubCircuitElement /\ Registered(e.cls)) =>
                    t >= 0 /\ t < 18 /\ BuiltinComponentTypes[t + 1] = e.cls

\* A subcircuit instance typed by a label the side file added, beside a node.
C10_Witness ==
  /\ element_types # <<>>
  /\ \E k \in DOMAIN element_types : element_types[k] >= 18
  /\ \E k \in DOMAIN element_types : element_types[k] = 6
  /\ Cardinality(DOMAIN subcircuit_types) = 2

\* An encoder call ended in the ValueError of component_types.index: some
\* entity of the graph has no type index.
LookupFailed ==
  /\ pc = "raised" /\ error = "ValueError"
  /\ \E k \in DOMAIN element_types : element_types[k] = -1

\* C11, as claimed: an entity whose class the enumeration does not list gets
\* an explicit classification from get_component_type_index (index 0 or an
\* enumerated error value); no encoder call ends in the lookup's own failure
\* raised to the encoder's caller.
C11_UnlistedTypeClassified == ~LookupFailed

\* The whitespace-separated tokens of a line: its pieces that are words.
WhitespaceTokens(line) == SelectSeq(line, LAMBDA piece : piece \notin Whitespace)

\* C12, as claimed: reading a line of the side file that consists of exactly
\* two whitespace-separated tokens maps the first (the subcircuit name) to the
\* second (the label) and has the label in the enumeration, whatever
\* whitespace separates them; reading any other line (blank, one token, one
\* token and trailing whitespace, three or more tokens) changes neither the
\* mapping nor the enumeration.
C12_TwoWhitespaceTokensIff ==
  [][(side_file # <<>> /\ side_file' = Tail(side_file)) =>
       LET tokens == WhitespaceTokens(Head(side_file))
       IN IF Len(tokens) = 2
            THEN /\ Str(tokens[1]) \in DOMAIN subcircuit_types'
                 /\ subcircuit_types'[Str(tokens[1])] = Str(tokens[2])
                 /\ Str(tokens[2]) \in Range(component_types')
            ELSE UNCHANGED registry]_vars

\* s is t or t with one more entry at its end.
AppendedAtMostOne(t, s) ==
  /\ Len(s) \in {Len(t), Len(t) + 1}
  /\ SubSeq(s, 1, Len(t)) = t

\* The enumeration as every state has it: the 18 built-in tags at indices
\* 0..17, no entry twice, every mapped label listed; and the type index of a
\* subcircuit instance whose name is mapped is the index of its label.
EnumerationKept ==
  /\ Len(component_types) >= Len(BuiltinComponentTypes)
  /\ SubSeq(component_types, 1, Len(BuiltinComponentTypes)) = BuiltinComponentTypes
  /\ \A p, q \in 1..Len(component_types) : p # q => component_types[p] # component_types[q]
  /\ \A nm \in DOMAIN subcircuit_types : subcircuit_types[nm] \in Range(component_types)
  /\ element_types # <<>> =>
       \A k \in DOMAIN element_types :
         LET e == graphs[LastCalled].component_list[k + 1]
         IN (e.cls = SubCircuitElement /\ e.subcircuit_name \in DOMAIN subcircuit_types) =>
              /\ element_types[k] >= 0
              /\ component_types[element_types[k] + 1] = subcircuit_types[e.subcircuit_name]

\* C13: loading the side file only appends to the enumeration.  Every step
\* leaves the entries it finds at their indices (the 18 built-in tags stay at
\* 0..17) and adds at most one entry, at the index that was the enumeration's
\* size; an entry is added exactly when the line read maps a label the
\* enumeration did not hold, and it is that label, so each novel label is
\* appended once, in the order of first occurrence; a subcircuit instance
\* whose name maps to a label gets that label's index.
C13_EnumerationAppendOnly ==
  [][/\ AppendedAtMostOne(component_types, component_types')
     /\ Len(component_types') = Len(component_types) + 1 <=>
          \E nm \in DOMAIN subcircuit_types' :
            subcircuit_types'[nm] \notin Range(component_types)
     /\ Len(component_types') = Len(component_types) + 1 =>
          /\ component_types'[Len(component_types) + 1] \notin Range(component_types)
          /\ \E nm \in DOMAIN subcircuit_types' :
               subcircuit_types'[nm] = component_types'[Len(component_types) + 1]
     /\ EnumerationKept']_vars

\* Two novel labels were appended, at 18 and at 19, and a subcircuit instance
\* mapped to the second one has been given index 19.
C13_Witness ==
  /\ Len(component_types) = Len(BuiltinComponentTypes) + 2
  /\ \E k \in DOMAIN element_types : element_types[k] = Len(BuiltinComponentTypes) + 1

\* C14, as claimed: is_valid_netlist, called from an importing module with or
\* without a name, returns: it never raises, and its value is True for a
\* text the parser accepts and False for a text it rejects.
C14_IsValidNetlistReturns ==
  loader = "is_valid" => pc = "done" /\ ret = <<sources[1].valid>>

\* The texts of the corpus that the parser accepts, in order.
AcceptedTexts == SelectSeq(textfiles, LAMBDA t : t.valid)

\* C15, as claimed: a run of load_masked_netlists, load_omitted_netlists or
\* PrototypeLinkDataset on a corpus never ends in the parser's rejection of
\* one of its texts; a run that ends normally has built the graphs of exactly
\* the accepted texts, in order.
C15_RejectedTextsDiscarded ==
  loader \in {"masked", "omitted", "proto"} =>
    /\ ~(pc = "raised" /\ error = "ParseError")
    /\ pc = "done" =>
         graphs = [f \in 1..Len(AcceptedTexts) |-> netlist_as_graph(AcceptedTexts[f])]

\* The encoding of file f alone, as load_masked_netlist allocates it: tensors
\* of Count(f) samples and Count(f) entities, all of them the encoder's slice.
AloneX(f) ==
  LET n == Count(f)
  IN IF loader = "masked" THEN MaskedX(Zeros3(n, n, NumTypes), TypesOf(f), n, 0, n)
     ELSE OmittedX(Zeros3(n, n, NumTypes), TypesOf(f), n, 0, n)

AloneA(f) ==
  LET n == Count(f)
  IN IF loader = "masked" THEN MaskedA(Zeros3(n, n, n), graphs[f].adj, n, 0, n)
     ELSE OmittedA(Zeros3(n, n, n), graphs[f].adj, n, 0, n)

AloneY(f) ==
  LET n == Count(f)
  IN IF loader = "masked" THEN SetTypeRows(Zeros3(n, n, NumTypes), TypesOf(f), n, 0, n)
     ELSE OmittedY(Zeros2(n, NumTypes), TypesOf(f), n, 0, n)

\* A matrix of n rows in m rows: the rows after the n-th are zero.
PaddedRows(M, n, m) ==
  [k \in 0..(m - 1) |-> IF k < n THEN M[k] ELSE [u \in 0..(NumTypes - 1) |-> 0]]

DataCount == SumSeq(Counts(graphs))

\* C16: the loaders' tensors have sum(n_f) samples and max(n_f) entities;
\* every sample index is Offset(f) + idx for exactly one file f and entity idx
\* of it, the files' slices following each other in file order; once file f is
\* encoded, sample Offset(f) + idx is the encoding of entity idx of file f
\* alone, zero in A, X and the masked y at every entity index >= n_f; the
\* samples of the files not encoded yet are still zero.
C16_BatchLayout ==
  (loader \in {"masked", "omitted"} /\ pc \in {"encode", "done", "raised"} /\ graphs # <<>>) =>
    /\ DOMAIN A = 0..(DataCount - 1) /\ DOMAIN X = DOMAIN A /\ DOMAIN y = DOMAIN A
    /\ \A s \in DOMAIN A :
         /\ DOMAIN A[s] = 0..(MaxCount - 1) /\ DOMAIN X[s] = 0..(MaxCount - 1)
         /\ \A r \in DOMAIN A[s] : DOMAIN A[s][r] = 0..(MaxCount - 1)
         /\ loader = "masked" => DOMAIN y[s] = 0..(MaxCount - 1)
         /\ Cardinality({fe \in {<<f, idx>> : f \in 1..Len(graphs), idx \in 0..(MaxCount - 1)} :
                           fe[2] < Count(fe[1]) /\ Offset(fe[1]) + fe[2] = s}) = 1
    /\ start = Offset(i)
    /\ pc = "done" => start = DataCount
    /\ \A f \in 1..Len(graphs) : \A idx \in 0..(Count(f) - 1) :
         LET s == Offset(f) + idx
         IN IF f \in Encoded
              THEN /\ A[s] = Padded(AloneA(f)[idx], Count(f), MaxCount)
                   /\ X[s] = PaddedRows(AloneX(f)[idx], Count(f), MaxCount)
                   /\ y[s] = IF loader = "masked"
                               THEN PaddedRows(AloneY(f)[idx], Count(f), MaxCount)
                               ELSE AloneY(f)[idx]
                   /\ \A k \in 0..(MaxCount - 1) : k >= Count(f) =>
                        /\ AllZero(X[s][k])
                        /\ AllZero(A[s][k])
                        /\ \A r \in 0..(MaxCount - 1) : A[s][r][k] = 0
                        /\ loader = "masked" => AllZero(y[s][k])
              ELSE /\ A[s] = Zeros2(MaxCount, MaxCount)
                   /\ X[s] = Zeros2(MaxCount, NumTypes)
                   /\ y[s] = IF loader = "masked" THEN Zeros2(MaxCount, NumTypes)
                                                  ELSE [u \in 0..(NumTypes - 1) |-> 0]

\* Two files are encoded, the second with fewer entities than the first: its
\* samples start at the first file's count and have padded entity rows.
C16_Witness ==
  /\ loader \in {"masked", "omitted"} /\ pc = "done"
  /\ Len(graphs) = 2 /\ Count(2) < Count(1)
  /\ start = Count(1) + Count(2)

\* The file whose graph out[o] was made from: read() extends its list by one
\* graph per entity of a file (train) or by one graph per file.
OutFile(o) ==
  IF train
    THEN CHOOSE f \in 1..Len(graphs) : Offset(f) < o /\ o <= Offset(f) + Count(f)
    ELSE o

\* The types whose bit row k of x carries.
TypeBits(x, k) == {t \in 0..(NumTypes - 1) : x[k][t] = 1}

\* C17: load_graph on n real entities and T types gives n+T feature rows
\* without an omitted entity and n+T-1 rows with entity o omitted; exactly T
\* rows carry the is-action flag (column T), each of them the bit of one
\* candidate type, and every type is the candidate of exactly one of them;
\* with o given, the action rows are row o, carrying the omitted entity's true
\* type, and rows n..n+T-2, carrying the other types in increasing order;
\* without, they are rows n..n+T-1, carrying the types in order; every other
\* row has the flag 0 and the one-hot of its entity's type.
C17_ActionRows ==
  \A o \in 1..Len(out) :
    LET g == out[o]
        f == OutFile(o)
        n == Count(f)
        T == NumTypes
        om == g.omitted_idx
        rows == IF om = -1 THEN n + T ELSE n + T - 1
        actions == {k \in DOMAIN g.x : g.x[k][T] = 1}
        added == IF om = -1 THEN n..(n + T - 1) ELSE n..(n + T - 2)
    IN /\ g.n = n
       /\ om = IF train THEN o - Offset(f) - 1 ELSE -1
       /\ DOMAIN g.x = 0..(rows - 1)
       /\ \A k \in DOMAIN g.x : DOMAIN g.x[k] = 0..T
       /\ Cardinality(actions) = T
       /\ \A k \in actions : Cardinality(TypeBits(g.x, k)) = 1
       /\ \A t \in 0..(T - 1) : Cardinality({k \in actions : t \in TypeBits(g.x, k)}) = 1
       /\ actions = added \cup (IF om = -1 THEN {} ELSE {om})
       /\ om # -1 => TypeBits(g.x, om) = {TypesOf(f)[om]}
       /\ \A k, m \in added :
            k < m => \A t \in TypeBits(g.x, k) : \A u \in TypeBits(g.x, m) : t < u
       /\ \A k \in 0..(n - 1) :
            k # om => g.x[k] = [t \in 0..T |-> IF t = TypesOf(f)[k] THEN 1 ELSE 0]

\* A training graph whose omitted entity is not the first one and is a node:
\* its row is the first action slot, with the flag and the bit of type 6.
C17_Witness ==
  /\ loader = "proto" /\ train /\ pc = "done"
  /\ \E o \in 1..Len(out) :
       /\ out[o].omitted_idx > 0
       /\ out[o].x[out[o].omitted_idx][NumTypes] = 1
       /\ out[o].x[out[o].omitted_idx][6] = 1

\* C18, as claimed: in every graph of load_graph, every action entity (a row
\* with the is-action flag), the first action slot on the omitted entity's
\* index included, has an all-zero adjacency row and column.
C18_ActionEntitiesIsolated ==
  \A o \in 1..Len(out) :
    \A k \in DOMAIN out[o].x :
      out[o].x[k][NumTypes] = 1 =>
        \A c \in DOMAIN out[o].a : out[o].a[k][c] = 0 /\ out[o].a[c][k] = 0

\* The pins of the graph's elements attached to node entity nd, and the
\* elements with at least one such pin.
PinsOn(g, nd) ==
  UNION {{<<e, p>> : p \in {q \in 1..Len(g.component_list[e].pins) :
                              g.component_list[e].pins[q] = nd.id}} :
         e \in {d \in 1..Len(g.component_list) : g.component_list[d].kind = "element"}}

ElementsOn(g, nd) == {e \in 1..Len(g.component_list) : Attached(g.component_list[e], nd)}

NodeRows(g) == {k \in 0..(Len(g.component_list) - 1) : g.component_list[k + 1].kind = "node"}

\* C19, as claimed: in every canonical graph the row sum of every node entity
\* is the number of element pins attached to the node, also when an element
\* attaches two or more of its pins to one node.
C19_NodeDegreeIsPinCount ==
  \A f \in Built : \A k \in NodeRows(graphs[f]) :
    RowSum(graphs[f].adj, k) = Cardinality(PinsOn(graphs[f], graphs[f].component_list[k + 1]))

\* C19, amended: the row sum of every node entity is the number of elements
\* with at least one pin attached to the node; it is the number of attached
\* pins exactly when no element attaches two of its pins to the node.
C19_NodeDegreeIsElementCount ==
  \A f \in Built : \A k \in NodeRows(graphs[f]) :
    LET g == graphs[f]
        nd == g.component_list[k + 1]
    IN /\ RowSum(g.adj, k) = Cardinality(ElementsOn(g, nd))
       /\ RowSum(g.adj, k) = Cardinality(PinsOn(g, nd)) <=>
            \A ep, eq \in PinsOn(g, nd) : ep[1] = eq[1] => ep[2] = eq[2]

\* A graph in which one element has two pins on one node and another element
\* has a pin on the same node: two elements, three pins.
C19_Witness ==
  \E f \in Built : \E k \in NodeRows(graphs[f]) :
    /\ Cardinality(PinsOn(graphs[f], graphs[f].component_list[k + 1])) = 3
    /\ RowSum(graphs[f].adj, k) = 2

\* The entities of the graph an encoder is called on next, or was called on
\* directly.
CalledCount == Len(graphs[IF loader \in {"masked", "omitted"} THEN i ELSE 1].component_list)

\* The sample and entity dimensions of X.
SampleDim == Cardinality(DOMAIN X)
EntityDim == Cardinality(DOMAIN X[0])

\* A tensor of three (of two) dimensions is still all zero.
Unwritten3(T3) == \A s \in DOMAIN T3 : \A k \in DOMAIN T3[s] : AllZero(T3[s][k])
Unwritten2(T2) == \A s \in DOMAIN T2 : AllZero(T2[s])

\* C20, as claimed: the loaders hand an encoder only slices with at least as
\* many samples and entity rows as the graph has entities; and an encoder
\* called with tensors that have fewer samples or fewer entity rows than the
\* graph has entities ends in an error and leaves A, X and y as they were
\* (all zero here), neither truncated nor partly written.
C20_TooSmallTensorsGuarded ==
  /\ (loader \in {"masked", "omitted"} /\ pc = "encode") =>
       /\ start + CalledCount <= SampleDim
       /\ CalledCount <= EntityDim
       /\ \A s \in DOMAIN A : CalledCount <= Cardinality(DOMAIN A[s])
  /\ (/\ loader \in {"encode_masked", "encode_omitted"}
      /\ SampleDim < CalledCount \/ EntityDim < CalledCount) =>
       /\ pc = "raised"
       /\ Unwritten3(A) /\ Unwritten3(X)
       /\ IF loader = "encode_masked" THEN Unwritten3(y) ELSE Unwritten2(y)

\* C21: in the omission encoder's sample for entity idx, everything outside
\* entity idx is as in the canonical graph: A[j][k] is adjacency[j][k] for all
\* j, k other than idx, row j of X is the one-hot of entity j's true type for
\* all j other than idx, and an entry of A differs from the canonical one
\* only in row idx or column idx, where it is 0.
C21_OmissionFrame ==
  (\/ loader = "omitted" /\ pc \in {"encode", "done", "raised"} /\ graphs # <<>>
   \/ loader = "encode_omitted" /\ pc = "done") =>
    \A f \in Encoded : \A idx \in 0..(Count(f) - 1) :
      LET s == Offset(f) + idx
          adj == graphs[f].adj
      IN /\ \A j, k \in 0..(Count(f) - 1) :
              /\ (j # idx /\ k # idx) => A[s][j][k] = adj[j][k]
              /\ A[s][j][k] # adj[j][k] => (j = idx \/ k = idx) /\ A[s][j][k] = 0
         /\ \A j \in 0..(Count(f) - 1) :
              j # idx => X[s][j] = OneHot(TypesOf(f)[j], NumTypes)

\* The omission encoder has encoded a graph in whose sample for one entity an
\* edge between two other entities is kept, both of them of one type.
C21_Witness ==
  /\ loader = "omitted" /\ pc = "done"
  /\ \E f \in Encoded : \E idx, j, k \in 0..(Count(f) - 1) :
       /\ j # idx /\ k # idx
       /\ graphs[f].adj[j][k] = 1 /\ A[Offset(f) + idx][j][k] = 1
       /\ TypesOf(f)[idx] = TypesOf(f)[k]

\* The number of graphs of a label class (a list of positions in out) that
\* read keeps after resampling.
KeptOf(label_idx) ==
  Cardinality({k \in DOMAIN graph_idx : graph_idx[k] \in Range(label_idx)})

\* C22: with resample enabled, read resamples the label classes to the median
\* class size (the middle one of the sorted per-class counts): a class holding
\* more graphs than that keeps exactly that many, a class at or below it keeps
\* all its graphs, and no graph is taken twice.
C22_ResampledToMedian ==
  (loader = "proto" /\ resample /\ pc = "done") =>
    LET by_label == graphs_by_label(out)
        median == MiddleCount(SortedCounts(by_label))
    IN /\ \A q \in DOMAIN by_label :
            IF Len(by_label[q]) > median
              THEN KeptOf(by_label[q]) = median
              ELSE Range(by_label[q]) \subseteq Range(graph_idx)
       /\ \A a, b \in DOMAIN graph_idx : a # b => graph_idx[a] # graph_idx[b]

\* The checkpoint names of the completed epochs 1..ep that are multiples of a
\* positive freq, in increasing order.
RECURSIVE DueCheckpoints(_, _, _)
DueCheckpoints(freq, ep, eps) ==
  IF ep = 0 THEN <<>>
  ELSE DueCheckpoints(freq, ep - 1, eps) \o
       (IF freq > 0 /\ \E m \in 1..ep : ep = m * freq
          THEN <<CheckpointName(ep, eps)>> ELSE <<>>)

TimesSaved(name) == Cardinality({k \in DOMAIN saved : saved[k] = name})

====
